---- MODULE Spec2Model ----
(***************************************************************************)
(* Flight telemetry multicast senders: senderv4.py, senderv6.py and        *)
(* senderv7.py.  One behaviour of Spec is one run of one sender revision   *)
(* (ver): start-up (route selection, socket), then the broadcast loop,     *)
(* one Tick action per loop iteration.                                     *)
(*                                                                         *)
(* Units.  Time is counted in ticks of REFRESH_RATE (0.1 s), so that       *)
(* elapsed = 6000 is TOTAL_FLIGHT_SECONDS.  A coordinate (degrees) is a    *)
(* record [u, f, r]: u + f/TOTAL_PACKETS in units of 1/10000 degree (the   *)
(* precision of the literals in senderv4.py), and r in {-1,0,1} the sign   *)
(* of a floating-point residual below any representable resolution.        *)
(* Characters are ASCII codes, strings are sequences of them, a packet is  *)
(* the sequence of its bytes.                                              *)
(***************************************************************************)
EXTENDS Integers, Sequences, FiniteSets, TLC

\* ------------------------------------------------------------------------
\* Configuration constants (identical in the three revisions)
\* ------------------------------------------------------------------------
INVALDATA == 2147483647
MAGIC_ID == 65021
DATA_PACKET_TYPE == 16
TOTAL_FLIGHT_SECONDS == 600
TicksPerSecond == 10
CodeWidth == 4
SP == 32

\* ------------------------------------------------------------------------
\* Bounds of the model
\* ------------------------------------------------------------------------
NumChars == 4
NumClockOffsets == 3
MaxStep == 3050
MaxElapsed == 6110

\* most words on a command line (sys.argv[1:])
MaxArgs == 3

\* ------------------------------------------------------------------------
\* struct: big-endian fixed layout
\* ------------------------------------------------------------------------
RECURSIVE SumSeq(_)
SumSeq(s) == IF s = <<>> THEN 0 ELSE Head(s) + SumSeq(Tail(s))

RECURSIVE FlattenFrom(_, _)
FlattenFrom(s, i) == IF i > Len(s) THEN <<>> ELSE s[i] \o FlattenFrom(s, i + 1)

\* the concatenation of the sequences in ss (ss evaluated once, as s)
Flatten(ss) == CHOOSE r \in { FlattenFrom(s, 1) : s \in {ss} } : TRUE

Pow256(k) == IF k = 0 THEN 1 ELSE IF k = 1 THEN 256 ELSE IF k = 2 THEN 65536 ELSE 16777216

ByteOf(u, k) == (u \div Pow256(k)) % 256

\* n-byte big-endian image of u >= 0
PackBE(u, n) == [i \in 1..n |-> ByteOf(u, n - i)]

\* '>i': two's complement, most significant byte first
Pack_i(v) == IF v >= 0 THEN PackBE(v, 4)
             ELSE [i \in 1..4 |-> 255 - ByteOf(-(v + 1), 4 - i)]

\* '>i' read back
Unpack_i(b) ==
    IF b[1] < 128
    THEN b[1] * 16777216 + b[2] * 65536 + b[3] * 256 + b[4]
    ELSE -(1 + (255 - b[1]) * 16777216 + (255 - b[2]) * 65536
             + (255 - b[3]) * 256 + (255 - b[4]))

\* '<I' read: least significant byte first (defined for b[4] < 128, i.e. ASCII)
Unpack_LE(b) == b[1] + b[2] * 256 + b[3] * 65536 + b[4] * 16777216

\* 's' field of width n: truncated or padded with NUL bytes
Pack_s(bytes, n) == [i \in 1..n |-> IF i <= Len(bytes) THEN bytes[i] ELSE 0]

FieldSize(c) == IF c = "H" THEN 2 ELSE IF c = "5s" THEN 5 ELSE 4

calcsize(fmt) == SumSeq([i \in 1..Len(fmt) |-> FieldSize(fmt[i])])

\* does value v fit the field code c (struct.error otherwise)
FieldFits(c, v) ==
    IF c = "H" THEN v >= 0 /\ v <= 65535
    ELSE IF c = "I" THEN v >= 0
    ELSE IF c = "i" THEN v >= -2147483647 - 1 /\ v <= 2147483647
    ELSE TRUE

PackField(c, v) ==
    IF c = "H" THEN PackBE(v, 2)
    ELSE IF c = "I" THEN PackBE(v, 4)
    ELSE IF c = "i" THEN Pack_i(v)
    ELSE Pack_s(v, 5)

\* struct.pack(fmt, *args): [err, bytes]; a is the argument list, evaluated once
struct_pack(fmt, args) ==
    CHOOSE r \in
        { IF Len(a) # Len(fmt) \/ \E i \in 1..Len(fmt) : ~FieldFits(fmt[i], a[i])
          THEN [err |-> "struct.error", bytes |-> <<>>]
          ELSE [err |-> "none",
                bytes |-> Flatten([i \in 1..Len(fmt) |-> PackField(fmt[i], a[i])])]
          : a \in {args} } : TRUE

Rep(c, n) == [i \in 1..n |-> c]

\* ------------------------------------------------------------------------
\* str helpers and the identifier-code encoders
\* ------------------------------------------------------------------------
ljust(s, w) == IF Len(s) >= w THEN s ELSE s \o Rep(SP, w - Len(s))

Prefix(s, n) == IF Len(s) <= n THEN s ELSE SubSeq(s, 1, n)

upper(s) == [i \in 1..Len(s) |-> IF s[i] >= 97 /\ s[i] <= 122 THEN s[i] - 32 ELSE s[i]]

RECURSIVE lstrip(_)
lstrip(s) == IF s # <<>> /\ Head(s) = SP THEN lstrip(Tail(s)) ELSE s

RECURSIVE rstrip(_)
rstrip(s) == IF s # <<>> /\ s[Len(s)] = SP THEN rstrip(SubSeq(s, 1, Len(s) - 1)) ELSE s

strip(s) == rstrip(lstrip(s))

Reverse(s) == [i \in 1..Len(s) |-> s[Len(s) + 1 - i]]

\* senderv4.enc_code: [err, val]
enc_code(code) ==
    IF code = <<>> THEN [err |-> "none", val |-> INVALDATA]
    ELSE IF Len(ljust(code, CodeWidth)) # 4 THEN [err |-> "struct.error", val |-> 0]
    ELSE [err |-> "none", val |-> Unpack_i(ljust(code, CodeWidth))]

\* senderv6.encode_airport
encode_airport_v6(code) == Unpack_i(ljust(Prefix(code, 4), CodeWidth))

\* senderv7.encode_airport
encode_airport_v7(code) == Unpack_LE(Prefix(ljust(upper(strip(code)), CodeWidth), 4))

\* ------------------------------------------------------------------------
\* Numbers: integer arithmetic standing for the float arithmetic of the source
\* ------------------------------------------------------------------------
Abs(x) == IF x < 0 THEN -x ELSE x

\* int(): truncation toward zero of n/d, d > 0
TruncDiv(n, d) == IF n >= 0 THEN n \div d ELSE -((-n) \div d)

RECURSIVE SqrtIter(_, _, _)
SqrtIter(n, lo, hi) ==
    IF lo >= hi THEN lo
    ELSE LET mid == (lo + hi + 1) \div 2
         IN IF mid * mid <= n THEN SqrtIter(n, mid, hi) ELSE SqrtIter(n, lo, mid - 1)

\* floor of the square root, 0 <= n < 2^30
ISqrt(n) == SqrtIter(n, 0, 32767)

\* elapsed time of one flight, in clock ticks (TOTAL_PACKETS of senderv4)
TotalTicks == TOTAL_FLIGHT_SECONDS * TicksPerSecond

\* 10000 * sin(pi * x / d) for 0 <= x <= d  (Bhaskara's rational approximation)
SinPi(x, d) ==
    LET p == x * (d - x)
    IN (16 * p) \div ((5 * d * d - 4 * p) \div 10000)

\* 10000 * cos(pi * x / d) for 0 <= x <= d
CosPi(x, d) ==
    IF 2 * x <= d THEN SinPi(2 * x + d, 2 * d) ELSE -SinPi(2 * x - d, 2 * d)

\* ------------------------------------------------------------------------
\* Coordinates
\* ------------------------------------------------------------------------
Deg(u) == [u |-> u, f |-> 0, r |-> 0]

SamePoint(a, b) == a.u = b.u /\ a.f = b.f

\* int(c * LAT_LON_SCALE_FACTOR): c * 3600 degrees = (u + f/TotalTicks) * 9/25
ScaledInt(c) ==
    LET n9  == c.u * 9
        num == (n9 % 25) * TotalTicks + 9 * c.f
        den == 25 * TotalTicks
        fl  == (n9 \div 25) + (num \div den)
    IN IF num % den = 0
       THEN IF fl > 0 /\ c.r < 0 THEN fl - 1
            ELSE IF fl < 0 /\ c.r > 0 THEN fl + 1
            ELSE fl
       ELSE IF fl < 0 THEN fl + 1 ELSE fl

\* c + k * (d / TotalTicks), d in 1/10000 degree
AddFrac(c, d, k, res) ==
    LET n == c.f + d * k
    IN [u |-> c.u + (n \div TotalTicks), f |-> n % TotalTicks, r |-> res]

\* senderv4: current += DELTA with DELTA = d / TOTAL_PACKETS
AddDelta(c, d) == AddFrac(c, d, 1, c.r)

\* ------------------------------------------------------------------------
\* Navigation model (senderv6 / senderv7), on the coordinate grid
\* ------------------------------------------------------------------------
\* millidegrees of atan(t / 1000), 0 <= t <= 1000
AtanMilli(t) == 45 * t + ((((t * (1000 - t)) \div 100) * 1564) \div 1000)

\* floor of the compass bearing (degrees) of the vector (x east, y north)
Atan2Deg(x, y) ==
    LET ax == Abs(x)
        ay == Abs(y)
        a  == IF ax = 0 /\ ay = 0 THEN 0
              ELSE IF ay >= ax THEN AtanMilli((1000 * ax) \div ay)
              ELSE 90000 - AtanMilli((1000 * ay) \div ax)
        b  == IF x >= 0 /\ y >= 0 THEN a
              ELSE IF x >= 0 THEN 180000 - a
              ELSE IF y < 0 THEN 180000 + a
              ELSE 360000 - a
    IN (b \div 1000) % 360

\* 1000 * cos(latitude)
CosLat(c) == SinPi(900 - (c.u \div 1000), 1800) \div 10

\* compute_heading: initial bearing from (lat1, lon1) to (lat2, lon2).  When the
\* two points agree up to a floating-point residual, atan2 sees only that
\* residual (exactly equal arguments give atan2(0, 0) = 0).
compute_heading(lat1, lon1, lat2, lon2) ==
    IF SamePoint(lat1, lat2) /\ SamePoint(lon1, lon2)
    THEN IF lat1.r > lat2.r THEN 180
         ELSE IF lat1.r < lat2.r THEN 0
         ELSE IF lon1.r > lon2.r THEN 270
         ELSE IF lon1.r < lon2.r THEN 90
         ELSE 0
    ELSE Atan2Deg(((lon2.u - lon1.u) * CosLat(lat2)) \div 1000, lat2.u - lat1.u)

\* interpolate_great_circle at fraction e / TotalTicks (0 <= e <= TotalTicks);
\* res = <<rlat, rlon>> is the rounding residual of the float computation
interpolate_great_circle(lat1, lon1, lat2, lon2, e, res) ==
    IF SamePoint(lat1, lat2) /\ SamePoint(lon1, lon2)
    THEN <<lat1, lon1>>
    ELSE <<AddFrac(lat1, lat2.u - lat1.u, e, res[1]),
           AddFrac(lon1, lon2.u - lon1.u, e, res[2])>>

\* haversine_distance, in tenths of a nautical mile (60 nm per degree of arc)
haversine_distance(lat1, lon1, lat2, lon2) ==
    LET dy == (lat2.u - lat1.u) \div 100
        dx == (((lon2.u - lon1.u) * CosLat(lat2)) \div 1000) \div 100
    IN 6 * ISqrt(dx * dx + dy * dy)

\* ------------------------------------------------------------------------
\* Wall clock.  A reading is [epoch, year, mon, mday, hour, min, sec] (UTC).
\* ------------------------------------------------------------------------
\* the reading e ticks after the reading `start` ([epoch, year, mon, mday, sod])
ClockAt(start, e) ==
    LET tot == start.sod + (e \div TicksPerSecond)
        sod == tot % 86400
    IN [epoch |-> start.epoch + (e \div TicksPerSecond),
        year  |-> start.year,
        mon   |-> start.mon,
        mday  |-> start.mday + (tot \div 86400),
        hour  |-> sod \div 3600,
        min   |-> (sod % 3600) \div 60,
        sec   |-> sod % 60]

\* (year << 16) | (mon << 8) | mday, also struct '>HBB' read as '>I'
DateEnc(clk) == clk.year * 65536 + clk.mon * 256 + clk.mday

\* ------------------------------------------------------------------------
\* Airport records.  geoID is a Python int of any size, kept as <<hi, lo>>
\* with value hi * 65536 + lo, 0 <= lo < 65536.
\* ------------------------------------------------------------------------
Fits32(w) == w[1] >= -32768 /\ w[1] <= 32767

\* the value as a 32-bit field (a value that does not fit is never packed:
\* struct.pack raises, see send_data_packet)
Narrow(w) == IF Fits32(w) THEN w[1] * 65536 + w[2] ELSE 0

\* ------------------------------------------------------------------------
\* Telemetry derivation shared by senderv6 and senderv7 (e = elapsed, ticks)
\* ------------------------------------------------------------------------
Min(a, b) == IF a <= b THEN a ELSE b

Max(a, b) == IF a >= b THEN a ELSE b

\* fraction = min(elapsed / TOTAL_FLIGHT_SECONDS, 1.0), as a tick count
FractionTicks(e) == Min(e, TotalTicks)

\* variant of Arrived: the test written fraction > 1.0
Arrived_gt(e) == FractionTicks(e) > TotalTicks

\* fraction >= 1.0 in the loops of senderv6 and senderv7
Arrived(e) == FractionTicks(e) >= TotalTicks

\* 10000 * sin(pi * fraction), 10000 * cos(pi * fraction)
SinFrac(e) == SinPi(FractionTicks(e), TotalTicks)

CosFrac(e) == CosPi(FractionTicks(e), TotalTicks)

\* int(altitude): altitude = 35000 * sin(pi * fraction) if fraction < 1.0 else 0
AltitudeInt(e) == IF FractionTicks(e) < TotalTicks THEN (35 * SinFrac(e)) \div 10 ELSE 0

\* int(altitude * 100)
AltitudeScaled(e) == IF FractionTicks(e) < TotalTicks THEN 350 * SinFrac(e) ELSE 0

\* int(3000 * cos(pi * fraction)) if fraction < 1.0 else 0
VerticalSpeed(e) == IF FractionTicks(e) < TotalTicks THEN TruncDiv(3 * CosFrac(e), 10) ELSE 0

\* true_airspeed = 450 * (1 - abs(cos(pi * fraction)) * 0.2), in tenths of a knot
TrueAirspeed10(e) == 4500 - ((9 * Abs(CosFrac(e))) \div 100)

\* int(head_wind * cos(radians(heading - (heading + 10)))), head_wind = 39
Tailwind == TruncDiv(39 * SinPi(100, 180), 10000)

\* int(5 * sin(elapsed / 10)), elapsed / 10 in radians
RollSin(e) ==
    LET a == ((e * 100000) \div (31416 * TicksPerSecond)) % 20000
        s == IF a <= 10000 THEN SinPi(a, 10000) ELSE -SinPi(a - 10000, 10000)
    IN TruncDiv(5 * s, 10000)

\* int(5 + 5 * min(elapsed, 30) / 30)
PitchRamp(e) ==
    (150 * TicksPerSecond + 5 * Min(e, 30 * TicksPerSecond)) \div (30 * TicksPerSecond)

\* variant of Pitch: nose up in Descent
Pitch_descent_up(phase, e) ==
    IF phase = 2 THEN PitchRamp(e)
    ELSE IF phase = 3 THEN 5
    ELSE IF phase = 4 THEN 0
    ELSE IF phase = 5 THEN 2
    ELSE IF phase = 6 THEN 2
    ELSE IF phase = 7 THEN 5
    ELSE 0

\* pitch by phase (identical in senderv6 and senderv7)
Pitch(phase, e) ==
    IF phase = 2 THEN PitchRamp(e)
    ELSE IF phase = 3 THEN 5
    ELSE IF phase = 4 THEN 0
    ELSE IF phase = 5 THEN -2
    ELSE IF phase = 6 THEN 2
    ELSE IF phase = 7 THEN 5
    ELSE 0

\* roll by phase, senderv6
Roll_v6(phase, e) == IF phase = 3 \/ phase = 5 THEN RollSin(e) ELSE 0

\* the ASCII text b'RC901'
FLIGHT_STR == <<82, 67, 57, 48, 49>>

\* ------------------------------------------------------------------------
\* senderv6: packet layout and send_data_packet (up to the sendto call)
\* ------------------------------------------------------------------------
DATA_FULL_FORMAT_v6 == <<"H", "H">> \o Rep("i", 42) \o <<"5s">>

EXPECTED_PACKET_SIZE_v6 == calcsize(DATA_FULL_FORMAT_v6)

all_42_integers_v6(lat, lon, heading, phase, e, DEP, DST, DEP_APT, DST_APT, clk) ==
    LET remaining == Max(TotalTicks - e, 0) \div TicksPerSecond
        alt       == (35 * SinFrac(e)) \div 10
        temp100   == 28815 - ((65 * (IF FractionTicks(e) < TotalTicks THEN alt ELSE 0)) \div 100)
        sos10     == (389772 * ISqrt(temp100 * 100)) \div 1000000
        tas10     == TrueAirspeed10(e)
        mach      == IF sos10 # 0 THEN (tas10 * 10000) \div sos10 ELSE 0
        total10   == haversine_distance(DEP_APT.lat, DEP_APT.lon, DST_APT.lat, DST_APT.lon)
        trav10    == (total10 * FractionTicks(e)) \div TotalTicks
        vs        == VerticalSpeed(e)
    IN << 1,
          ScaledInt(lat),
          ScaledInt(lon),
          (tas10 * 95) \div 1000,
          tas10 \div 10,
          14,
          39,
          (total10 - trav10) \div 10,
          4,
          AltitudeScaled(e),
          temp100 \div 100,
          remaining,
          e \div TicksPerSecond,
          heading,
          vs * 100,
          Tailwind,
          clk.epoch + remaining,
          mach,
          trav10 * 10,
          clk.epoch,
          DateEnc(clk),
          ScaledInt(DEP_APT.lat),
          ScaledInt(DEP_APT.lon),
          encode_airport_v6(DEP),
          encode_airport_v6(DEP_APT.icao),
          Narrow(DEP_APT.geoID),
          ScaledInt(DST_APT.lat),
          ScaledInt(DST_APT.lon),
          encode_airport_v6(DST),
          encode_airport_v6(DST_APT.icao),
          Narrow(DST_APT.geoID),
          phase,
          1, 0, 0, 0, 4, 2, 2,
          vs,
          Pitch(phase, e),
          Roll_v6(phase, e) >>

\* variant of send_data_packet: elapsed taken from the wall clock inside the call
send_data_packet_v6_now(lat, lon, heading, phase, e, DEP, DST, DEP_APT, DST_APT, clk) ==
    LET ints == all_42_integers_v6(lat, lon, heading, phase, clk.sec * TicksPerSecond,
                                   DEP, DST, DEP_APT, DST_APT, clk)
        res  == struct_pack(DATA_FULL_FORMAT_v6,
                            <<MAGIC_ID, DATA_PACKET_TYPE>> \o ints \o <<FLIGHT_STR>>)
    IN IF Len(ints) # 42 THEN [err |-> "ValueError", bytes |-> <<>>]
       ELSE IF ~Fits32(DEP_APT.geoID) \/ ~Fits32(DST_APT.geoID)
            THEN [err |-> "struct.error", bytes |-> <<>>]
       ELSE IF res.err # "none" THEN res
       ELSE IF Len(res.bytes) # EXPECTED_PACKET_SIZE_v6
            THEN [err |-> "RuntimeError", bytes |-> <<>>]
       ELSE res

\* [err, bytes]: the packet handed to sendto, or the exception raised before it
send_data_packet_v6(lat, lon, heading, phase, e, DEP, DST, DEP_APT, DST_APT, clk) ==
    LET ints == all_42_integers_v6(lat, lon, heading, phase, e, DEP, DST, DEP_APT, DST_APT, clk)
        res  == struct_pack(DATA_FULL_FORMAT_v6,
                            <<MAGIC_ID, DATA_PACKET_TYPE>> \o ints \o <<FLIGHT_STR>>)
    IN IF Len(ints) # 42 THEN [err |-> "ValueError", bytes |-> <<>>]
       ELSE IF ~Fits32(DEP_APT.geoID) \/ ~Fits32(DST_APT.geoID)
            THEN [err |-> "struct.error", bytes |-> <<>>]
       ELSE IF res.err # "none" THEN res
       ELSE IF Len(res.bytes) # EXPECTED_PACKET_SIZE_v6
            THEN [err |-> "RuntimeError", bytes |-> <<>>]
       ELSE res

\* ------------------------------------------------------------------------
\* senderv7: packet layout and send_data_packet (up to the sendto call)
\* ------------------------------------------------------------------------
\* the ASCII text "TK  1920" (flight_str of senderv7, never packed)
FLIGHT_STR_v7 == <<84, 75, 32, 32, 49, 57, 50, 48>>

DATA_FULL_FORMAT_v7 == <<"H", "H">> \o Rep("i", 20) \o <<"I">> \o Rep("i", 21)

EXPECTED_PACKET_SIZE_v7 == calcsize(DATA_FULL_FORMAT_v7)

\* int((start_time.hour * 60 + start_time.minute * 1.2 + TOTAL_FLIGHT_SECONDS / 60) % 1440)
EstimatedArrival_v7(start_time) ==
    ((start_time.hour * 600 + start_time.min * 12 + ((TOTAL_FLIGHT_SECONDS * 10) \div 60))
        % 14400) \div 10

all_42_integers_v7(lat, lon, heading, phase, e, DEP, DST, DEP_APT, DST_APT, clk, start_time) ==
    LET tas10    == TrueAirspeed10(e)
        total10  == haversine_distance(DEP_APT.lat, DEP_APT.lon, DST_APT.lat, DST_APT.lon)
        trav10   == (total10 * FractionTicks(e)) \div TotalTicks
    IN << 1,
          ScaledInt(lat),
          ScaledInt(lon),
          (tas10 * 95) \div 1000,
          tas10 \div 10,
          14,
          39,
          (total10 - trav10) \div 10,
          trav10 \div 10,
          AltitudeInt(e),
          5,
          Max(TotalTicks - e, 0) \div (60 * TicksPerSecond),
          e \div (60 * TicksPerSecond),
          heading,
          heading,
          Tailwind,
          EstimatedArrival_v7(start_time),
          (tas10 * 100000) \div 871557,
          trav10 * 10,
          (clk.hour * 3600 + clk.min * 60 + clk.sec) % 86400,
          DateEnc(clk),
          ScaledInt(DEP_APT.lat),
          ScaledInt(DEP_APT.lon),
          encode_airport_v7(DEP),
          encode_airport_v7(DEP_APT.icao),
          Narrow(DEP_APT.geoID),
          ScaledInt(DST_APT.lat),
          ScaledInt(DST_APT.lon),
          encode_airport_v7(DST),
          encode_airport_v7(DST_APT.icao),
          Narrow(DST_APT.geoID),
          phase,
          1, 1, 0, 0, 1, 1,
          AltitudeScaled(e),
          VerticalSpeed(e),
          Pitch(phase, e),
          0 >>

send_data_packet_v7(lat, lon, heading, phase, e, DEP, DST, DEP_APT, DST_APT, clk, start_time) ==
    LET ints == all_42_integers_v7(lat, lon, heading, phase, e, DEP, DST, DEP_APT, DST_APT,
                                   clk, start_time)
        res  == struct_pack(DATA_FULL_FORMAT_v7, <<MAGIC_ID, DATA_PACKET_TYPE>> \o ints)
    IN IF ~Fits32(DEP_APT.geoID) \/ ~Fits32(DST_APT.geoID)
       THEN [err |-> "struct.error", bytes |-> <<>>]
       ELSE IF res.err # "none" THEN res
       ELSE IF Len(res.bytes) # EXPECTED_PACKET_SIZE_v7
            THEN [err |-> "RuntimeError", bytes |-> <<>>]
       ELSE res

\* ------------------------------------------------------------------------
\* senderv4: fixed route ORD -> JFK, stored position, packet
\* ------------------------------------------------------------------------
ORD_LAT == 419742
ORD_LON == -879073
JFK_LAT == 406413
JFK_LON == -737781

\* the ASCII texts 'ORD', 'KORD', 'JFK', 'KJFK'
ORD == <<79, 82, 68>>
KORD == <<75, 79, 82, 68>>
JFK == <<74, 70, 75>>
KJFK == <<75, 74, 70, 75>>

DATA_FULL_FORMAT_v4 == <<"H", "H">> \o Rep("i", 32) \o Rep("i", 3) \o <<"5s">> \o Rep("i", 7)

trail_post_zeros == <<0, INVALDATA, INVALDATA, 35000, 0, 0, 0>>

core_data_v4(lat, lon, phase, clk) ==
    << 1,
       ScaledInt(lat),
       ScaledInt(lon),
       450, 450, 50, 50, 2000, 250, 35000, -50,
       7200, 3600,
       90, 90, 90,
       0, 850, 1000,
       clk.hour * 3600 + clk.min * 60 + clk.sec,
       DateEnc(clk),
       ScaledInt(Deg(ORD_LAT)),
       ScaledInt(Deg(ORD_LON)),
       enc_code(ORD).val, enc_code(KORD).val, INVALDATA,
       ScaledInt(Deg(JFK_LAT)),
       ScaledInt(Deg(JFK_LON)),
       enc_code(JFK).val, enc_code(KJFK).val, INVALDATA,
       phase >>

send_data_packet_v4(lat, lon, phase, clk) ==
    IF \E c \in {ORD, KORD, JFK, KJFK} : enc_code(c).err # "none"
    THEN [err |-> "struct.error", bytes |-> <<>>]
    ELSE struct_pack(DATA_FULL_FORMAT_v4,
                     <<MAGIC_ID, DATA_PACKET_TYPE>> \o core_data_v4(lat, lon, phase, clk)
                        \o <<INVALDATA, INVALDATA, Len(FLIGHT_STR)>> \o <<FLIGHT_STR>>
                        \o trail_post_zeros)

\* ------------------------------------------------------------------------
\* Flight phase table
\* ------------------------------------------------------------------------
\* variant of PHASE_TIMINGS: Landing selected 10 s before the flight time is up
PHASE_TIMINGS_early7 == << <<30, 2>>, <<60, 3>>, <<180, 4>>, <<480, 5>>, <<540, 6>>, <<590, 7>> >>

\* variant of PHASE_TIMINGS: the table ends the flight with Postflight at 600 s
PHASE_TIMINGS_taxi == << <<30, 2>>, <<60, 3>>, <<180, 4>>, <<480, 5>>, <<540, 6>>, <<600, 8>> >>

\* variant of PHASE_TIMINGS: the 480 s entry mistyped as phase 3
PHASE_TIMINGS_typo == << <<30, 2>>, <<60, 3>>, <<180, 4>>, <<480, 3>>, <<540, 6>>, <<600, 7>> >>

PHASE_TIMINGS == << <<30, 2>>, <<60, 3>>, <<180, 4>>, <<480, 5>>, <<540, 6>>, <<600, 7>> >>

\* for t, phase in PHASE_TIMINGS: if elapsed >= t: cur = phase   (from entry i on)
RECURSIVE PhaseLoop(_, _, _)
PhaseLoop(cur, e, i) ==
    IF i > Len(PHASE_TIMINGS) THEN cur
    ELSE PhaseLoop(IF e >= PHASE_TIMINGS[i][1] * TicksPerSecond
                   THEN PHASE_TIMINGS[i][2] ELSE cur, e, i + 1)

\* ------------------------------------------------------------------------
\* Reading packets back (all revisions keep the first 32 integers in place)
\* ------------------------------------------------------------------------
\* the k-th 32-bit integer after the two header fields, k = 0, 1, ...
IntField(pkt, k) == Unpack_i(SubSeq(pkt, 5 + 4 * k, 8 + 4 * k))

HeaderField(pkt, k) == pkt[2 * k + 1] * 256 + pkt[2 * k + 2]

PhaseOf(pkt) == IntField(pkt, 31)

HeadingOf(pkt) == IntField(pkt, 13)

LatOf(pkt) == IntField(pkt, 1)

LonOf(pkt) == IntField(pkt, 2)

PitchOf(pkt) == IntField(pkt, 40)

RollOf(pkt) == IntField(pkt, 41)

EstimatedArrivalOf(pkt) == IntField(pkt, 16)

\* ------------------------------------------------------------------------
\* Inputs of a run: airport directory (tbairportinfo.csv as loaded by
\* load_airports), command line, wall clock at start, float residual
\* ------------------------------------------------------------------------
YYZ == <<89, 89, 90>>
CYYZ == <<67, 89, 89, 90>>
XXX == <<88, 88, 88>>

AIRPORTS ==
    [c \in {JFK, ORD, YYZ} |->
        IF c = JFK THEN [icao |-> KJFK, lat |-> Deg(JFK_LAT), lon |-> Deg(JFK_LON),
                         geoID |-> <<0, 3421>>]
        ELSE IF c = ORD THEN [icao |-> KORD, lat |-> Deg(ORD_LAT), lon |-> Deg(ORD_LON),
                              geoID |-> <<32767, 65535>>]
        ELSE [icao |-> CYYZ, lat |-> Deg(436777), lon |-> Deg(-796248),
              geoID |-> <<40000, 0>>]]

\* sys.argv[1:] with the residual the float interpolation leaves on that route
RouteInputs ==
    { [argv |-> <<>>, fpres |-> <<-1, 0>>],
      [argv |-> <<<<111, 114, 100>>, <<106, 102, 107>>>>, fpres |-> <<1, 0>>],
      [argv |-> <<JFK, JFK>>, fpres |-> <<0, 0>>],
      [argv |-> <<XXX, JFK>>, fpres |-> <<0, 0>>],
      [argv |-> <<JFK, YYZ>>, fpres |-> <<0, 0>>] }

StartClocks == { [epoch |-> 1793836770, year |-> 2026, mon |-> 11, mday |-> 4, sod |-> 86370] }


\* ------------------------------------------------------------------------
\* State
\* ------------------------------------------------------------------------
VARIABLES
    ver,            \* sender revision: 4, 6 or 7
    argv,           \* sys.argv[1:]
    clock0,         \* wall clock when the process starts (v7: module start_time)
    fpres,          \* residual of the float interpolation on this platform and route
    pc,             \* "start", "loop", "stopped"
    stop,           \* why the loop stopped: "", "route", "fatal", "oserror", "interrupt", "complete"
    exit_status,    \* process exit status, -1 while running
    sock_open,      \* the multicast socket exists and is not closed
    DEP, DST,       \* route (IATA codes)
    elapsed,        \* time.time() - start_time as read by the last iteration, in ticks
    current_phase,  \* loop state
    current_lat, current_lon,
    heading,        \* heading of the last iteration (v6, v7)
    oldheading,     \* senderv7 global
    phase,          \* senderv7: the for-loop variable, as left by the last iteration
    packet,         \* bytes of the last datagram handed to sendto successfully
    nsent,          \* number of datagrams sent, counted up to 2
    fn              \* SpecFn only: a function applied to inputs, with its results

vars == <<ver, argv, clock0, fpres, pc, stop, exit_status, sock_open, DEP, DST, elapsed,
          current_phase, current_lat, current_lon, heading, oldheading, phase, packet, nsent,
          fn>>

Init ==
    /\ ver \in {4, 6, 7}
    /\ \E r \in RouteInputs :
          /\ argv = IF ver = 4 THEN <<>> ELSE r.argv
          /\ fpres = IF ver = 4 THEN <<0, 0>> ELSE r.fpres
    /\ clock0 \in StartClocks
    /\ pc = "start"
    /\ stop = ""
    /\ exit_status = -1
    /\ sock_open = (ver = 4)
    /\ DEP = <<>>
    /\ DST = <<>>
    /\ elapsed = 0
    /\ current_phase = 1
    /\ current_lat = Deg(ORD_LAT)
    /\ current_lon = Deg(ORD_LON)
    /\ heading = 0
    /\ oldheading = 0
    /\ phase = 0
    /\ packet = <<>>
    /\ nsent = 0
    /\ fn = [op |-> "none"]

\* pick_route(AIRPORTS) (senderv6, senderv7) for the directory with key set keys:
\* [ok, dep, dst]; ok = FALSE is sys.exit(1)
pick_route_dir(args, keys) ==
    IF Len(args) = 2
    THEN LET dep == upper(args[1])
             dst == upper(args[2])
         IN IF dep \notin keys \/ dst \notin keys
            THEN [ok |-> FALSE, dep |-> dep, dst |-> dst]
            ELSE IF dep = dst THEN [ok |-> FALSE, dep |-> dep, dst |-> dst]
            ELSE [ok |-> TRUE, dep |-> dep, dst |-> dst]
    ELSE [ok |-> TRUE, dep |-> JFK, dst |-> ORD]

\* pick_route on the directory of this model
pick_route(args) == pick_route_dir(args, DOMAIN AIRPORTS)

\* main() from pick_route to the socket set-up: "exit1" (sys.exit(1) in
\* pick_route), "KeyError" (AIRPORTS[DEP] / AIRPORTS[DST] raises, uncaught),
\* or "loop" (the simulation starts)
main_route(args, keys) ==
    LET r == pick_route_dir(args, keys)
    IN IF ~r.ok THEN "exit1"
       ELSE IF r.dep \notin keys \/ r.dst \notin keys THEN "KeyError"
       ELSE "loop"

\* variant of Exit: sys.exit() without a status
Exit_status0(why, status, closes) ==
    /\ pc' = "stopped"
    /\ stop' = why
    /\ exit_status' = 0
    /\ sock_open' = IF closes THEN FALSE ELSE sock_open

\* the process ends (exit status, socket closed or not)
Exit(why, status, closes) ==
    /\ pc' = "stopped"
    /\ stop' = why
    /\ exit_status' = status
    /\ sock_open' = IF closes THEN FALSE ELSE sock_open

\* an exception unwinds the loop: its variables are gone, what was sent stays sent
Unwind ==
    /\ elapsed' = 0
    /\ current_phase' = 0
    /\ current_lat' = Deg(0)
    /\ current_lon' = Deg(0)
    /\ heading' = 0
    /\ oldheading' = 0
    /\ phase' = 0
    /\ packet' = <<>>
    /\ UNCHANGED nsent

\* senderv4 module level up to the loop: socket created, start_time taken
Start_v4 ==
    /\ ver = 4 /\ pc = "start"
    /\ pc' = "loop"
    /\ DEP' = ORD /\ DST' = JFK
    /\ UNCHANGED <<fn, ver, argv, clock0, fpres, stop, exit_status, sock_open, elapsed,
                   current_phase, current_lat, current_lon, heading, oldheading, phase,
                   packet, nsent>>

\* main() of senderv6 / senderv7 up to the loop
Start_v67 ==
    /\ ver \in {6, 7} /\ pc = "start"
    /\ LET r == pick_route(argv)
       IN IF r.ok
          THEN /\ DEP' = r.dep /\ DST' = r.dst
               /\ pc' = "loop" /\ sock_open' = TRUE
               /\ UNCHANGED <<stop, exit_status>>
          ELSE /\ Exit("route", 1, FALSE)
               /\ UNCHANGED <<DEP, DST>>
    /\ UNCHANGED <<fn, ver, argv, clock0, fpres, elapsed, current_phase, current_lat,
                   current_lon, heading, oldheading, phase, packet, nsent>>

\* clock readings the next iteration can see: about 0 on the first one, then
\* one sleep(REFRESH_RATE) later, or a stall of MaxStep ticks later (stalls are
\* explored where the last reading is a multiple of MaxStep)
NextElapsed ==
    IF nsent = 0 THEN {elapsed}
    ELSE {elapsed + 1} \cup (IF elapsed % MaxStep = 0 THEN {elapsed + MaxStep} ELSE {})

Sent(bytes) ==
    /\ packet' = bytes
    /\ nsent' = Min(nsent + 1, 2)

\* variant of Moving_v4: the position advances in phase 1 as well
Moving_v4_preflight(cp) == cp >= 1 /\ cp <= 7

\* senderv4: if 2 <= current_phase <= 7 the stored position advances
Moving_v4(cp) == cp >= 2 /\ cp <= 7

\* variant of FlightOver_v4: the 10 s grace margin left out
FlightOver_v4_nograce(e) == e > TOTAL_FLIGHT_SECONDS * TicksPerSecond

\* senderv4: if elapsed_time > TOTAL_FLIGHT_SECONDS + 10, the loop ends
FlightOver_v4(e) == e > (TOTAL_FLIGHT_SECONDS + 10) * TicksPerSecond

\* one iteration of the senderv4 loop; sendto may raise OSError (ok = FALSE)
Tick_v4 ==
    /\ ver = 4 /\ pc = "loop"
    /\ \E e \in NextElapsed :
       LET cp  == PhaseLoop(current_phase, e, 1)
           mv  == Moving_v4(cp)
           lat == IF mv THEN AddDelta(current_lat, JFK_LAT - ORD_LAT) ELSE current_lat
           lon == IF mv THEN AddDelta(current_lon, JFK_LON - ORD_LON) ELSE current_lon
       IN \E res \in {send_data_packet_v4(lat, lon, cp, ClockAt(clock0, e))}, ok \in BOOLEAN :
          /\ e <= MaxElapsed
          /\ IF res.err # "none" \/ ~ok
             THEN /\ Exit(IF res.err # "none" THEN "fatal" ELSE "oserror", 1, TRUE)
                  /\ Unwind
             ELSE /\ elapsed' = e
                  /\ current_lat' = lat
                  /\ current_lon' = lon
                  /\ Sent(res.bytes)
                  /\ IF FlightOver_v4(e)
                     THEN /\ current_phase' = 8
                          /\ Exit("complete", 0, TRUE)
                     ELSE /\ current_phase' = cp
                          /\ UNCHANGED <<pc, stop, exit_status, sock_open>>
                  /\ UNCHANGED <<heading, oldheading, phase>>
    /\ UNCHANGED <<fn, ver, argv, clock0, fpres, DEP, DST>>

\* one iteration of the senderv6 loop
Tick_v6 ==
    /\ ver = 6 /\ pc = "loop"
    /\ \E e \in NextElapsed :
       LET cp1  == PhaseLoop(current_phase, e, 1)
           dep  == AIRPORTS[DEP]
           dst  == AIRPORTS[DST]
           pos  == interpolate_great_circle(dep.lat, dep.lon, dst.lat, dst.lon,
                                            FractionTicks(e), fpres)
           hd   == compute_heading(pos[1], pos[2], dst.lat, dst.lon)
           done == Arrived(e)
           cp   == IF done THEN 8 ELSE cp1
           lat  == IF done THEN dst.lat ELSE pos[1]
           lon  == IF done THEN dst.lon ELSE pos[2]
       IN \E res \in {send_data_packet_v6(lat, lon, hd, cp, e, DEP, DST, dep, dst,
                                       ClockAt(clock0, e))},
             ok \in BOOLEAN :
          /\ e <= MaxElapsed
          /\ IF res.err # "none"
             THEN /\ Exit("fatal", 1, FALSE)
                  /\ elapsed' = e
                  /\ current_phase' = cp
                  /\ current_lat' = lat
                  /\ current_lon' = lon
                  /\ heading' = hd
                  /\ UNCHANGED <<packet, nsent>>
             ELSE IF ~ok
             THEN /\ Exit("oserror", 1, FALSE)
                  /\ Unwind
             ELSE /\ elapsed' = e
                  /\ current_phase' = cp
                  /\ current_lat' = lat
                  /\ current_lon' = lon
                  /\ heading' = hd
                  /\ Sent(res.bytes)
                  /\ UNCHANGED <<pc, stop, exit_status, sock_open>>
    /\ UNCHANGED <<fn, ver, argv, clock0, fpres, DEP, DST, oldheading, phase>>

\* one iteration of the senderv7 loop
Tick_v7 ==
    /\ ver = 7 /\ pc = "loop"
    /\ \E e \in NextElapsed :
       LET cp1  == PhaseLoop(current_phase, e, 1)
           ph   == PHASE_TIMINGS[Len(PHASE_TIMINGS)][2]
           dep  == AIRPORTS[DEP]
           dst  == AIRPORTS[DST]
           pos  == interpolate_great_circle(dep.lat, dep.lon, dst.lat, dst.lon,
                                            FractionTicks(e), fpres)
           hd   == IF ph # 8
                   THEN compute_heading(pos[1], pos[2], dst.lat, dst.lon)
                   ELSE oldheading
           done == Arrived(e)
           cp   == IF done THEN 8 ELSE cp1
           lat  == IF done THEN dst.lat ELSE pos[1]
           lon  == IF done THEN dst.lon ELSE pos[2]
       IN \E res \in {send_data_packet_v7(lat, lon, hd, cp, e, DEP, DST, dep, dst,
                                       ClockAt(clock0, e), ClockAt(clock0, 0))},
             ok \in BOOLEAN :
          /\ e <= MaxElapsed
          /\ IF res.err # "none"
             THEN /\ Exit("fatal", 1, FALSE)
                  /\ elapsed' = e
                  /\ phase' = ph
                  /\ current_phase' = cp
                  /\ current_lat' = lat
                  /\ current_lon' = lon
                  /\ heading' = hd
                  /\ oldheading' = IF ph # 8 THEN hd ELSE oldheading
                  /\ UNCHANGED <<packet, nsent>>
             ELSE IF ~ok
             THEN /\ Exit("oserror", 1, FALSE)
                  /\ Unwind
             ELSE /\ elapsed' = e
                  /\ phase' = ph
                  /\ current_phase' = cp
                  /\ current_lat' = lat
                  /\ current_lon' = lon
                  /\ heading' = hd
                  /\ oldheading' = IF ph # 8 THEN hd ELSE oldheading
                  /\ Sent(res.bytes)
                  /\ UNCHANGED <<pc, stop, exit_status, sock_open>>
    /\ UNCHANGED <<fn, ver, argv, clock0, fpres, DEP, DST>>

\* Ctrl-C while the loop runs: senderv4 catches KeyboardInterrupt and closes the
\* socket in its finally clause; senderv6 and senderv7 have no handler
Interrupt ==
    /\ pc = "loop"
    /\ IF ver = 4 THEN Exit("interrupt", 0, TRUE) ELSE Exit("interrupt", 130, FALSE)
    /\ Unwind
    /\ UNCHANGED <<fn, ver, argv, clock0, fpres, DEP, DST>>

Next == Start_v4 \/ Start_v67 \/ Tick_v4 \/ Tick_v6 \/ Tick_v7 \/ Interrupt

Spec == Init /\ [][Next]_vars

\* the clock keeps advancing: senderv4 gets to run its start-up and its loop
SpecLive == Spec /\ WF_vars(Start_v4) /\ WF_vars(Tick_v4)

\* ------------------------------------------------------------------------
\* The encoders and send_data_packet applied as functions to drawn inputs
\* ------------------------------------------------------------------------
\* characters identifier codes are drawn from: ' ', 'J', 'j', 'F', 'K', 'X'
CodeChars == <<SP, 74, 106, 70, 75, 88>>

Codes == UNION { [1..n -> {CodeChars[i] : i \in 1..NumChars}] : n \in 0..CodeWidth }

\* seconds after the start clock at which send_data_packet reads the wall clock
ClockOffsets == <<0, 1, 30, 90>>

CallClocks ==
    { ClockAt(c, ClockOffsets[i] * TicksPerSecond) : c \in StartClocks, i \in 1..NumClockOffsets }

InitFn ==
    /\ ver = 0
    /\ argv = <<>>
    /\ clock0 \in StartClocks
    /\ fpres = <<0, 0>>
    /\ pc = "fn"
    /\ stop = ""
    /\ exit_status = -1
    /\ sock_open = FALSE
    /\ DEP = <<>> /\ DST = <<>>
    /\ elapsed = 0
    /\ current_phase = 1
    /\ current_lat = Deg(0) /\ current_lon = Deg(0)
    /\ heading = 0 /\ oldheading = 0 /\ phase = 0
    /\ packet = <<>>
    /\ nsent = 0
    /\ fn = [op |-> "none"]

\* the 4-byte big-endian slot each revision's encoder fills for a code
FnEncode ==
    /\ pc = "fn" /\ fn.op = "none"
    /\ \E c \in Codes :
         fn' = [op |-> "encode", code |-> c,
                slot4 |-> IF enc_code(c).err = "none" THEN Pack_i(enc_code(c).val) ELSE <<>>,
                slot6 |-> Pack_i(encode_airport_v6(c)),
                slot7 |-> Pack_i(encode_airport_v7(c))]
    /\ UNCHANGED <<ver, argv, clock0, fpres, pc, stop, exit_status, sock_open, DEP, DST,
                   elapsed, current_phase, current_lat, current_lon, heading, oldheading,
                   phase, packet, nsent>>

\* two calls of send_data_packet of one process with equal arguments, the wall
\* clock read as clkA by the first and clkB by the second
FnSend ==
    /\ pc = "fn" /\ fn.op = "none"
    /\ \E v \in {6, 7}, ph \in 1..8, hd \in {0, 272}, e \in {0, 900, TotalTicks},
          at \in {JFK, ORD}, clkA \in CallClocks, clkB \in CallClocks :
         LET dep == AIRPORTS[JFK]
             dst == AIRPORTS[ORD]
             pos == AIRPORTS[at]
             st  == ClockAt(clock0, 0)
             p1  == IF v = 6
                    THEN send_data_packet_v6(pos.lat, pos.lon, hd, ph, e, JFK, ORD, dep, dst, clkA)
                    ELSE send_data_packet_v7(pos.lat, pos.lon, hd, ph, e, JFK, ORD, dep, dst,
                                             clkA, st)
             p2  == IF v = 6
                    THEN send_data_packet_v6(pos.lat, pos.lon, hd, ph, e, JFK, ORD, dep, dst, clkB)
                    ELSE send_data_packet_v7(pos.lat, pos.lon, hd, ph, e, JFK, ORD, dep, dst,
                                             clkB, st)
         IN fn' = [op |-> "send", v |-> v, phase |-> ph, heading |-> hd, elapsed |-> e,
                   at |-> at, clkA |-> clkA, clkB |-> clkB, p1 |-> p1.bytes, p2 |-> p2.bytes]
    /\ UNCHANGED <<ver, argv, clock0, fpres, pc, stop, exit_status, sock_open, DEP, DST,
                   elapsed, current_phase, current_lat, current_lon, heading, oldheading,
                   phase, packet, nsent>>

\* words of a command line: "JFK", "ord", "XXX"
ArgWords == {JFK, <<111, 114, 100>>, XXX}

CommandLines == UNION { [1..n -> ArgWords] : n \in 0..MaxArgs }

\* key sets of the airport directories load_airports can return
Directories == SUBSET {JFK, ORD, YYZ}

\* pick_route and the look-ups after it, for a command line and a directory
FnPickRoute ==
    /\ pc = "fn" /\ fn.op = "none"
    /\ \E args \in CommandLines, keys \in Directories :
         LET r == pick_route_dir(args, keys)
         IN fn' = [op |-> "route", args |-> args, keys |-> keys, ok |-> r.ok,
                   dep |-> r.dep, dst |-> r.dst, main |-> main_route(args, keys)]
    /\ UNCHANGED <<ver, argv, clock0, fpres, pc, stop, exit_status, sock_open, DEP, DST,
                   elapsed, current_phase, current_lat, current_lon, heading, oldheading,
                   phase, packet, nsent>>

NextFn == FnEncode \/ FnSend \/ FnPickRoute

SpecFn == InitFn /\ [][NextFn]_vars

\* ------------------------------------------------------------------------
\* Properties
\* ------------------------------------------------------------------------
\* this step of the loop hands a datagram to sendto and sendto returns
Transmits ==
    /\ pc = "loop"
    /\ stop' \in {"", "complete"}
    /\ packet' # <<>>
    /\ (nsent' # nsent \/ elapsed' # elapsed)

ExpectedSize(v) == IF v = 6 THEN EXPECTED_PACKET_SIZE_v6 ELSE EXPECTED_PACKET_SIZE_v7

\* the bytes s occur somewhere in pkt
Contains(pkt, s) ==
    \E o \in 1..(Len(pkt) - Len(s) + 1) : SubSeq(pkt, o, o + Len(s) - 1) = s

FlightNumber(v) == IF v = 7 THEN FLIGHT_STR_v7 ELSE FLIGHT_STR

\* C1: in every revision the phase carried by a transmitted packet is never
\* lower than the phase carried by the packet transmitted before it.
C1_PhaseNonDecreasing ==
    [][(Transmits /\ nsent >= 1) => PhaseOf(packet') >= PhaseOf(packet)]_vars

C1_Witness == pc = "loop" /\ nsent = 2 /\ PhaseOf(packet) >= 7

\* C2: in senderv6 and senderv7 a packet sent at an elapsed time beyond
\* TOTAL_FLIGHT_SECONDS carries phase 8 and exactly the destination's coordinates.
C2_ArrivedAtDestination ==
    (ver \in {6, 7} /\ pc = "loop" /\ nsent >= 1 /\ elapsed > TotalTicks)
        => /\ PhaseOf(packet) = 8
           /\ current_phase = 8
           /\ current_lat = AIRPORTS[DST].lat
           /\ current_lon = AIRPORTS[DST].lon
           /\ LatOf(packet) = ScaledInt(AIRPORTS[DST].lat)
           /\ LonOf(packet) = ScaledInt(AIRPORTS[DST].lon)

C2_Witness ==
    ver = 7 /\ pc = "loop" /\ nsent = 2 /\ elapsed > TotalTicks /\ PhaseOf(packet) = 8

\* C3: in senderv7 a packet transmitted with phase 8 carries the heading of the
\* packet transmitted before it (the heading is frozen in phase 8).
C3_HeadingFrozen ==
    [][(ver = 7 /\ Transmits /\ nsent >= 1 /\ PhaseOf(packet') = 8)
          => HeadingOf(packet') = HeadingOf(packet)]_vars

\* the phase the claim gives for an elapsed time up to the total duration
PhaseByTable(e) ==
    IF e < 30 * TicksPerSecond THEN 1
    ELSE IF e < 60 * TicksPerSecond THEN 2
    ELSE IF e < 180 * TicksPerSecond THEN 3
    ELSE IF e < 480 * TicksPerSecond THEN 4
    ELSE IF e < 540 * TicksPerSecond THEN 5
    ELSE IF e < 600 * TicksPerSecond THEN 6
    ELSE 7

\* C4: for 0 <= elapsed <= TOTAL_FLIGHT_SECONDS the transmitted phase is the
\* code of the largest threshold not exceeding elapsed (7 at exactly 600 s).
C4_PhaseFromTable ==
    (pc = "loop" /\ nsent >= 1 /\ elapsed <= TotalTicks)
        => PhaseOf(packet) = PhaseByTable(elapsed)

\* what C5 requires of one step of senderv6 or senderv7
SizeGuardStep ==
    /\ Transmits => Len(packet') = ExpectedSize(ver)
    /\ (pc = "loop" /\ stop' = "fatal")
          => (pc' = "stopped" /\ exit_status' = 1 /\ packet' = packet /\ nsent' = nsent)

\* C5: senderv6 and senderv7 transmit only packets of EXPECTED_PACKET_SIZE
\* bytes, and an error raised by send_data_packet ends the process with exit
\* status 1 without that packet being sent.
C5_SizeGuard == [][(ver \in {6, 7}) => SizeGuardStep]_vars

C5_Witness == ver \in {6, 7} /\ pc = "stopped" /\ stop = "fatal" /\ nsent = 0

\* C6: EXPECTED_PACKET_SIZE is 177 in senderv6 and in senderv7, and every
\* packet they transmit is 177 bytes long.
C6_Size177 ==
    (ver \in {6, 7} /\ packet # <<>>)
        => Len(packet) = 177 /\ ExpectedSize(ver) = 177

\* C7: every transmitted packet holds the magic id, the packet type and the
\* bytes of the revision's flight number.
C7_FlightNumberInPacket ==
    packet # <<>>
        => /\ HeaderField(packet, 0) = MAGIC_ID
           /\ HeaderField(packet, 1) = DATA_PACKET_TYPE
           /\ Contains(packet, FlightNumber(ver))

\* C8: for every code of length <= 4 the slot written from each revision's
\* encoder holds the code left-justified and space-padded, in its own order.
C8_RoundTrip ==
    fn.op = "encode"
        => /\ fn.slot4 = ljust(fn.code, CodeWidth)
           /\ fn.slot6 = ljust(fn.code, CodeWidth)
           /\ fn.slot7 = ljust(fn.code, CodeWidth)

\* the byte positions of the fields send_data_packet fills from the wall clock:
\* integers 19 (time) and 20 (date), in senderv6 also 16 (arrival = epoch + remaining)
ClockBytes(v) ==
    { 4 + 4 * k + b : k \in (IF v = 6 THEN {16, 19, 20} ELSE {19, 20}), b \in 1..4 }

\* C9 as stated: two calls of send_data_packet with equal arguments emit
\* byte-identical packets.
C9_SameArgsSameBytes == fn.op = "send" => fn.p1 = fn.p2

\* C9 amended: two calls with equal arguments emit packets of equal length that
\* agree in every byte outside the fields filled from the wall clock.
C9_SameOutsideClockFields ==
    fn.op = "send"
        => /\ Len(fn.p1) = ExpectedSize(fn.v)
           /\ Len(fn.p2) = Len(fn.p1)
           /\ \A i \in 1..Len(fn.p1) : i \notin ClockBytes(fn.v) => fn.p1[i] = fn.p2[i]

C9_Witness == fn.op = "send" /\ fn.v = 6 /\ fn.clkA # fn.clkB /\ fn.p1 # fn.p2

\* C10: a failure of sendto never stops the loop of any revision.
C10_SendFailureAbsorbed == ~(pc = "stopped" /\ stop = "oserror")

\* C11: no run reaches process exit with the multicast socket still open.
C11_SocketClosedOnExit == pc = "stopped" => ~sock_open

\* C12: senderv4, given that its loop keeps running, always terminates, and
\* completes only on a tick whose elapsed time exceeds TOTAL_FLIGHT_SECONDS + 10,
\* the first such tick; senderv6 and senderv7 never complete: their loop stops
\* only on an interrupt or an error that ends the process.
C12_LoopTermination ==
    /\ ((ver = 4) ~> (pc = "stopped"))
    /\ []((ver = 4 /\ stop = "complete")
             => elapsed > (TOTAL_FLIGHT_SECONDS + 10) * TicksPerSecond)
    /\ []((ver = 4 /\ pc = "loop")
             => elapsed <= (TOTAL_FLIGHT_SECONDS + 10) * TicksPerSecond)
    /\ []((ver \in {6, 7} /\ pc = "stopped")
             => stop \in {"route", "interrupt", "fatal", "oserror"})

C12_Witness ==
    /\ ver = 4 /\ pc = "stopped" /\ stop = "complete"
    /\ current_phase = 8 /\ ~sock_open
    /\ elapsed > (TOTAL_FLIGHT_SECONDS + 10) * TicksPerSecond

\* C13: every pair pick_route returns is two different keys of the directory,
\* and a two-word command line with an unknown code or with equal codes ends
\* the process in pick_route, before the simulation starts.
C13_RouteValidated ==
    fn.op = "route" =>
        /\ fn.ok => (fn.dep # fn.dst /\ fn.dep \in fn.keys /\ fn.dst \in fn.keys)
        /\ (/\ Len(fn.args) = 2
            /\ \/ upper(fn.args[1]) \notin fn.keys
               \/ upper(fn.args[2]) \notin fn.keys
               \/ upper(fn.args[1]) = upper(fn.args[2]))
           => (~fn.ok /\ fn.main = "exit1")

\* the last iteration of senderv6 / senderv7 sent the packet held in packet
SentNow_v67 == ver \in {6, 7} /\ pc = "loop" /\ nsent > 0

\* C14: on the Takeoff ticks of senderv6 / senderv7 the transmitted pitch is
\* int(5 + 5*min(elapsed,30)/30), is below 10 on the early ticks of the phase
\* (its first second) and is 10 once the ramp has ended.
C14_TakeoffPitchRamps ==
    (SentNow_v67 /\ PhaseOf(packet) = 2) =>
        /\ PitchOf(packet) = PitchRamp(elapsed)
        /\ PitchOf(packet) >= 5 /\ PitchOf(packet) <= 10
        /\ elapsed < 31 * TicksPerSecond => PitchOf(packet) < 10
        /\ elapsed >= 59 * TicksPerSecond => PitchOf(packet) = 10

\* the pitch the flight profile holds in each phase other than Takeoff
HeldPitch == <<0, 0, 5, 0, -2, 2, 5, 0>>

\* C15: outside Takeoff the pitch field of a senderv6 / senderv7 packet is the
\* value held for its phase (1 -> 0, 3 -> 5, 4 -> 0, 5 -> -2, 6 -> 2, 7 -> 5,
\* 8 -> 0), whatever the elapsed time, the position, the heading and the clock.
C15_PitchByPhase ==
    (fn.op = "send" /\ fn.phase # 2) =>
        /\ fn.p1 # <<>> /\ fn.p2 # <<>>
        /\ PhaseOf(fn.p1) = fn.phase
        /\ PitchOf(fn.p1) = HeldPitch[fn.phase]
        /\ PitchOf(fn.p2) = HeldPitch[fn.phase]

C15_Witness ==
    /\ fn.op = "send" /\ fn.v = 7 /\ fn.phase = 5 /\ fn.elapsed = 900 /\ fn.at = JFK
    /\ PitchOf(fn.p1) = -2

\* minute of the day of the departure wall clock: 60 * hour + minute
DepartureMinute == 60 * ClockAt(clock0, 0).hour + ClockAt(clock0, 0).min

\* C16: every senderv7 packet carries as estimated arrival time the departure
\* minute of the day plus TOTAL_FLIGHT_SECONDS / 60, modulo 1440, an integer
\* in 0..1439.
C16_ArrivalMinuteOfDay ==
    (ver = 7 /\ pc = "loop" /\ nsent > 0) =>
        /\ EstimatedArrivalOf(packet) \in 0..1439
        /\ EstimatedArrivalOf(packet)
              = (DepartureMinute + (TOTAL_FLIGHT_SECONDS \div 60)) % 1440

\* C17: every packet transmitted with phase 1 carries the departure airport's
\* latitude and longitude as current position (senderv4, senderv6, senderv7).
C17_PreflightPinned ==
    (pc = "loop" /\ nsent > 0 /\ PhaseOf(packet) = 1) =>
        /\ LatOf(packet) = ScaledInt(AIRPORTS[DEP].lat)
        /\ LonOf(packet) = ScaledInt(AIRPORTS[DEP].lon)

\* a sending iteration of senderv6 / senderv7 never sends phase 7: when the
\* table leaves the loop variable at 7 the iteration sets it to 8 before
\* sending, and from 8 the table loop takes it back to 7 first
NoLandingStep ==
    /\ PhaseOf(packet') # 7
    /\ PhaseOf(packet') = current_phase'
    /\ PhaseLoop(current_phase, elapsed', 1) = 7 => (Arrived(elapsed') /\ current_phase' = 8)
    /\ current_phase = 8 => PhaseLoop(current_phase, elapsed', 1) = 7
    /\ (packet # <<>> /\ PhaseOf(packet') = 8) => PhaseOf(packet) \in (1..6) \cup {8}

\* C18: senderv6 and senderv7 never transmit phase 7: a tick on which the
\* table selects 7 has fraction >= 1.0 and sends 8, so the transmitted phase
\* passes from 6 or lower directly to 8, and on every later tick the loop
\* variable goes from 8 back to 7 and to 8 again.
C18_NoLandingPhase == [][(ver \in {6, 7} /\ Transmits) => NoLandingStep]_vars

C18_Witness ==
    /\ ver = 6 /\ pc = "loop" /\ nsent = 2 /\ elapsed > TotalTicks
    /\ current_phase = 8 /\ PhaseOf(packet) = 8
    /\ PhaseLoop(current_phase, elapsed, 1) = 7

\* a sending iteration of senderv4: the packet carries a phase in 1..7, and 7
\* with an advanced position once elapsed >= 600 s; the loop variable becomes 8
\* only on the iteration that leaves the loop, after its packet was sent
LandingToTheEndStep ==
    /\ current_phase # 8
    /\ PhaseOf(packet') \in 1..7
    /\ elapsed' >= TOTAL_FLIGHT_SECONDS * TicksPerSecond =>
          /\ PhaseOf(packet') = 7
          /\ current_lat' = AddDelta(current_lat, JFK_LAT - ORD_LAT)
          /\ current_lon' = AddDelta(current_lon, JFK_LON - ORD_LON)
          /\ LatOf(packet') = ScaledInt(current_lat')
          /\ LonOf(packet') = ScaledInt(current_lon')
    /\ current_phase' = 8 <=> (pc' = "stopped" /\ stop' = "complete")
    /\ current_phase' # 8 => current_phase' = PhaseOf(packet')

\* C19: senderv4 never transmits phase 8: current_phase becomes 8 only as the
\* loop exits, after the last packet; every packet sent at elapsed >= 600 s
\* carries phase 7 and a position advanced by one more increment.
C19_NoPostflightPacket == [][(ver = 4 /\ Transmits) => LandingToTheEndStep]_vars

C19_Witness ==
    /\ ver = 4 /\ pc = "stopped" /\ stop = "complete" /\ current_phase = 8
    /\ packet # <<>> /\ PhaseOf(packet) = 7
    /\ LatOf(packet) = ScaledInt(current_lat)

\* senderv4: how many times (LAT_DELTA, LON_DELTA) has been added to the
\* stored position, read off the stored latitude
Increments ==
    ((current_lat.u - ORD_LAT) * TotalTicks + current_lat.f) \div (JFK_LAT - ORD_LAT)

\* x lies between a and b
Between(x, a, b) == (a <= x /\ x <= b) \/ (b <= x /\ x <= a)

\* C20: in a run of senderv4 the position has been advanced at most
\* TOTAL_PACKETS (6000) times, by whole increments on both axes, and the
\* transmitted position lies between ORD and JFK.
C20_NeverPastDestination ==
    (ver = 4 /\ pc \in {"loop", "stopped"} /\ stop \in {"", "complete"}) =>
        /\ Increments \in 0..TotalTicks
        /\ current_lat = AddFrac(Deg(ORD_LAT), JFK_LAT - ORD_LAT, Increments, 0)
        /\ current_lon = AddFrac(Deg(ORD_LON), JFK_LON - ORD_LON, Increments, 0)
        /\ packet # <<>> =>
              /\ LatOf(packet) = ScaledInt(current_lat)
              /\ LonOf(packet) = ScaledInt(current_lon)
              /\ Between(LatOf(packet), ScaledInt(Deg(ORD_LAT)), ScaledInt(Deg(JFK_LAT)))
              /\ Between(LonOf(packet), ScaledInt(Deg(ORD_LON)), ScaledInt(Deg(JFK_LON)))
              /\ Increments = TotalTicks
                    <=> (LatOf(packet) = ScaledInt(Deg(JFK_LAT))
                         /\ LonOf(packet) = ScaledInt(Deg(JFK_LON)))

\* a complete run on an unstalled clock: increments on the ticks from 30.0 s
\* to 610.1 s
C20_Witness ==
    /\ ver = 4 /\ stop = "complete"
    /\ Increments = (TOTAL_FLIGHT_SECONDS + 10 - 30) * TicksPerSecond + 2
    /\ LatOf(packet) # ScaledInt(Deg(JFK_LAT))

====
